---- MODULE Spec2Model ----
(***************************************************************************)
(* MatrixKeypad (src/src/MatrixKeypad.c, src/src/MatrixKeypad.h): a        *)
(* polled matrix-keypad scanner with a one-key event buffer.               *)
(*                                                                         *)
(* The model has the fields of MatrixKeypad_t, the keys that are           *)
(* physically held down (the environment), the position of a blocking      *)
(* wait inside its loop together with its locals, and a record of the      *)
(* last step taken (which call it was, what it saw and what it returned).  *)
(* Characters are one-character strings; NUL stands for '\0'.              *)
(* The 32-bit value of millis() is kept as two 16-bit halves [hi, lo] so   *)
(* that its arithmetic is exact.  The levels of the row wires and a        *)
(* second instance are followed in specifications of their own.            *)
(***************************************************************************)
EXTENDS Integers, Sequences, FiniteSets, TLC

VARIABLES
    keypad,       \* rown, coln, rowPins, colPins, keyMap of MatrixKeypad_t
    lastKey,      \* MatrixKeypad_t.lastKey
    buffer,       \* MatrixKeypad_t.buffer
    pressed,      \* environment: the cells <<row, col>> whose button is held down
    pc,           \* "idle", or the position inside a blocking wait or a scan pass
    timeout,      \* parameter of MatrixKeypad_waitForKeyTimeout
    startTime,    \* local of MatrixKeypad_waitForKeyTimeout (uint16_t)
    startMillis,  \* the untruncated value millis() returned for startTime
    now,          \* the value returned by the latest millis() call of the wait
    wait,         \* the running blocking wait: buffer and lastKey at its call, scanned yet
    rowLevel,     \* the level driven on each row pin
    scan,         \* locals row and key of a scan pass followed pin by pin
    other,        \* the fields of a second instance, or NoOther
    otherPressed, \* environment: the cells held down on the second keypad
    lastCall      \* the last step: [op, handle, scanned, key, ret, has, old, oldLast]

vars == <<keypad, lastKey, buffer, pressed, pc, timeout, startTime, startMillis, now,
          wait, rowLevel, scan, other, otherPressed, lastCall>>

-----------------------------------------------------------------------------
(* Bounds of the model *)

\* at most this many buttons are held down at once in Spec
MaxPressed == 2

\* how many 1 ms readings in a row the model follows after each large clock jump
MaxFine == 3

\* the clock of a waitForKeyTimeout call is followed until this many times 2^16 ms have passed
MaxWraps == 2

-----------------------------------------------------------------------------
(* Values *)

\* '\0', the "not detected" key
NUL == "NUL"

LOW == "LOW"

HIGH == "HIGH"

\* 2^16: the number of values of uint16_t; millis() is two such halves
U16 == 65536

\* the 4x3 keypad of the documentation of MatrixKeypad_create
ExampleKeypad ==
    [rown |-> 4, coln |-> 3,
     rowPins |-> <<10, 9, 8, 7>>,
     colPins |-> <<6, 5, 4>>,
     keyMap |-> <<"1", "2", "3", "4", "5", "6", "7", "8", "9", "*", "0", "#">>]

\* a 2x3 keypad built by the same call, for the specification with waits
SmallKeypad ==
    [rown |-> 2, coln |-> 3,
     rowPins |-> <<10, 9>>,
     colPins |-> <<6, 5, 4>>,
     keyMap |-> <<"1", "2", "3", "4", "5", "6">>]

\* a 1x2 keypad built by the same call, for the specifications with
\* fairness and with two instances
TinyKeypad ==
    [rown |-> 1, coln |-> 2,
     rowPins |-> <<10>>,
     colPins |-> <<6, 5>>,
     keyMap |-> <<"1", "2">>]

\* a 2x1 keypad on pins of its own, for the second instance
OtherKeypad ==
    [rown |-> 2, coln |-> 1,
     rowPins |-> <<3, 2>>,
     colPins |-> <<11>>,
     keyMap |-> <<"A", "B">>]

Cells(kp) == (0 .. kp.rown - 1) \X (0 .. kp.coln - 1)

Keys(kp) == {kp.keyMap[i] : i \in 1 .. Len(kp.keyMap)}

-----------------------------------------------------------------------------
(* millis(): unsigned long, 32 bits, as [hi, lo] with 16-bit halves *)

Zero32 == [hi |-> 0, lo |-> 0]

\* conversion of a uint16_t to unsigned long
ZeroExt(x) == [hi |-> 0, lo |-> x]

\* conversion of an unsigned long to uint16_t
Trunc16(m) == m.lo

\* m + d modulo 2^32, for 0 <= d < 2^16
Add32(m, d) ==
    LET s == m.lo + d
    IN  [hi |-> (m.hi + (s \div U16)) % U16, lo |-> s % U16]

\* a - b modulo 2^32
Sub32(a, b) ==
    LET l == a.lo - b.lo
        borrow == IF l < 0 THEN 1 ELSE 0
    IN  [hi |-> (a.hi - b.hi - borrow) % U16, lo |-> l % U16]

Leq32(a, b) == a.hi < b.hi \/ (a.hi = b.hi /\ a.lo <= b.lo)

-----------------------------------------------------------------------------
(* The hardware: a held button shorts its row wire to its column wire *)

\* digitalRead of column pin `pin` while the row pins in `low` are driven LOW
digitalRead(kp, pr, low, pin) ==
    IF \E cell \in pr : kp.colPins[cell[2] + 1] = pin /\ kp.rowPins[cell[1] + 1] \in low
    THEN LOW
    ELSE HIGH

-----------------------------------------------------------------------------
(* MatrixKeypad_scan *)

\* mutant: a column that reads HIGH is taken as pressed
ReadsPressedHigh(level) == level = HIGH

\* the test of line 89
ReadsPressed(level) == level = LOW

\* mutant: the key map is indexed with the number of rows
KeyAtRown(kp, row, col) == kp.keyMap[((row * kp.rown + col) % Len(kp.keyMap)) + 1]

\* keyMap[row * coln + col], line 90 (sequences are 1-based)
KeyAt(kp, row, col) == kp.keyMap[row * kp.coln + col + 1]

\* the inner loop, lines 88-92, with row driven LOW
RECURSIVE ScanCols(_, _, _, _, _)
ScanCols(kp, pr, row, col, key) ==
    IF col < kp.coln
    THEN ScanCols(kp, pr, row, col + 1,
                  IF ReadsPressed(digitalRead(kp, pr, {kp.rowPins[row + 1]}, kp.colPins[col + 1]))
                  THEN KeyAt(kp, row, col)
                  ELSE key)
    ELSE key

\* the outer loop, lines 85-94
RECURSIVE ScanRows(_, _, _, _)
ScanRows(kp, pr, row, key) ==
    IF row < kp.rown
    THEN ScanRows(kp, pr, row + 1, ScanCols(kp, pr, row, 0, key))
    ELSE key

\* mutant: the scan stops at the first active cell (first wins)
ScanKeyFirstWins(kp, pr) ==
    IF pr = {} THEN NUL
    ELSE LET first == CHOOSE x \in pr : \A y \in pr :
                          x[1] < y[1] \/ (x[1] = y[1] /\ x[2] <= y[2])
         IN  KeyAt(kp, first[1], first[2])

\* the candidate key of one scan pass, lines 71-94
ScanKey(kp, pr) == ScanRows(kp, pr, 0, NUL)

\* mutant: every scan that sees a key buffers it (no edge detection)
ScanUpdateNoEdge(lk, bf, key) ==
    [lastKey |-> key, buffer |-> IF key # NUL THEN key ELSE bf]

\* mutant: a release edge overwrites the buffer
ScanUpdateRelease(lk, bf, key) ==
    IF lk # key THEN [lastKey |-> key, buffer |-> key]
    ELSE [lastKey |-> lk, buffer |-> bf]

\* mutant: an unread event is not overwritten
ScanUpdateKeepFirst(lk, bf, key) ==
    IF lk # key
    THEN [lastKey |-> key, buffer |-> IF key # NUL /\ bf = NUL THEN key ELSE bf]
    ELSE [lastKey |-> lk, buffer |-> bf]

\* mutant: a key is buffered only after a pass that saw no key
ScanUpdateAfterRelease(lk, bf, key) ==
    IF lk # key
    THEN [lastKey |-> key, buffer |-> IF key # NUL /\ lk = NUL THEN key ELSE bf]
    ELSE [lastKey |-> lk, buffer |-> bf]

\* lines 96-101: the new lastKey and buffer
ScanUpdate(lk, bf, key) ==
    IF lk # key
    THEN [lastKey |-> key, buffer |-> IF key # NUL THEN key ELSE bf]
    ELSE [lastKey |-> lk, buffer |-> bf]

-----------------------------------------------------------------------------
(* MatrixKeypad_hasKey, MatrixKeypad_getKey, MatrixKeypad_flush *)

\* mutant: the buffer always counts as holding a key
hasKeyAlways(bf) == 1

\* lines 112-116
hasKey(bf) == IF bf # NUL THEN 1 ELSE 0

\* mutant: the buffer is not cleared by a read
GetKeyNoClear(bf) == [ret |-> bf, buffer |-> bf]

\* lines 127-133: the value returned and the new buffer
GetKey(bf) == [ret |-> bf, buffer |-> NUL]

\* mutant: flush also forgets the last key detected
FlushAll(lk, bf) == [lastKey |-> NUL, buffer |-> NUL]

\* line 175: the new lastKey and buffer
Flush(lk, bf) == [lastKey |-> lk, buffer |-> NUL]

-----------------------------------------------------------------------------
(* Handles and instances *)

\* the null pointer
NULL == "NULL"

\* the pointer returned by the first MatrixKeypad_create
KP == "keypad"

\* the pointer returned by a second MatrixKeypad_create
KP2 == "other"

\* the value of `other` while no second instance exists
NoOther ==
    [keypad |-> [rown |-> 0, coln |-> 0, rowPins |-> <<>>, colPins |-> <<>>, keyMap |-> <<>>],
     lastKey |-> NUL,
     buffer |-> NUL]

\* the pointers a caller can pass
Handles == {NULL, KP} \cup (IF other = NoOther THEN {} ELSE {KP2})

\* mutant: the NULL tests are missing
IsNullNever(h) == FALSE

\* the tests keypad == NULL / keypad != NULL of lines 73, 108, 123, 140, 158, 173
IsNull(h) == h = NULL

\* mutant: every handle is the same static object
DerefStatic(h) == KP

\* the object a handle points to: malloc gives each instance its own (line 37)
Deref(h) == h

\* the fields reached through a handle, with the buttons of that keypad
Obj(h) ==
    IF Deref(h) = KP2
    THEN [keypad |-> other.keypad, lastKey |-> other.lastKey, buffer |-> other.buffer,
          pressed |-> otherPressed]
    ELSE [keypad |-> keypad, lastKey |-> lastKey, buffer |-> buffer, pressed |-> pressed]

\* keypad->lastKey = lk; keypad->buffer = bf
Store(h, lk, bf) ==
    IF Deref(h) = KP2
    THEN /\ other' = [other EXCEPT !.lastKey = lk, !.buffer = bf]
         /\ UNCHANGED <<lastKey, buffer>>
    ELSE /\ lastKey' = lk
         /\ buffer' = bf
         /\ UNCHANGED other

-----------------------------------------------------------------------------
(* The record of the last step *)

CallOn(h, op, scanned, key, ret, has) ==
    [op |-> op, handle |-> h, scanned |-> scanned, key |-> key, ret |-> ret, has |-> has,
     old |-> Obj(h).buffer, oldLast |-> Obj(h).lastKey]

Call(op, scanned, key, ret, has) == CallOn(KP, op, scanned, key, ret, has)

\* a call that returned at its NULL test: nothing is written
NullCall(h, op) ==
    /\ lastCall' = CallOn(h, op, FALSE, NUL, NUL, 0)
    /\ UNCHANGED <<lastKey, buffer, other>>

-----------------------------------------------------------------------------
(* MatrixKeypad_create *)

\* lines 42-48: the fields of a new keypad
Create(keymap, rowPins, colPins, rown, coln) ==
    [keypad |-> [rown |-> rown, coln |-> coln, rowPins |-> rowPins,
                 colPins |-> colPins, keyMap |-> keymap],
     lastKey |-> NUL,
     buffer |-> NUL]

Created(kp) == Create(kp.keyMap, kp.rowPins, kp.colPins, kp.rown, kp.coln)

\* lines 57-60: every row pin is an output driven HIGH
RowsIdle(kp) == [p \in {kp.rowPins[i] : i \in 1 .. kp.rown} |-> HIGH]

NoLocals ==
    /\ timeout = 0
    /\ startTime = 0
    /\ startMillis = Zero32
    /\ now = Zero32

\* no blocking wait is running
NoWait == [scanned |-> FALSE, buffer |-> NUL, lastKey |-> NUL]

\* no scan pass is running
NoScan == [row |-> 0, key |-> NUL]

\* the state after MatrixKeypad_create(kp): one instance, idle main loop
InitWith(kp) ==
    /\ keypad = Created(kp).keypad
    /\ lastKey = Created(kp).lastKey
    /\ buffer = Created(kp).buffer
    /\ rowLevel = RowsIdle(kp)
    /\ pc = "idle"
    /\ NoLocals
    /\ wait = NoWait
    /\ scan = NoScan
    /\ other = NoOther
    /\ otherPressed = {}
    /\ lastCall = [op |-> "create", handle |-> KP, scanned |-> FALSE, key |-> NUL,
                   ret |-> NUL, has |-> 0, old |-> NUL, oldLast |-> NUL]

\* the state after MatrixKeypad_create(SmallKeypad), no button held
Init ==
    /\ InitWith(SmallKeypad)
    /\ pressed = {}

\* the state after MatrixKeypad_create(TinyKeypad), no button held
InitTiny ==
    /\ InitWith(TinyKeypad)
    /\ pressed = {}

\* the state after MatrixKeypad_create(ExampleKeypad), any set of buttons held
InitExample ==
    /\ InitWith(ExampleKeypad)
    /\ pressed \in SUBSET Cells(ExampleKeypad)

-----------------------------------------------------------------------------
(* The environment *)

waitVars == <<pc, timeout, startTime, startMillis, now, wait>>

hwVars == <<rowLevel, scan>>

\* a button goes down
Press ==
    \E cell \in Cells(keypad) \ pressed :
        /\ Cardinality(pressed) < MaxPressed
        /\ pressed' = pressed \cup {cell}
        /\ lastCall' = Call("env", FALSE, NUL, NUL, 0)
        /\ UNCHANGED <<keypad, lastKey, buffer, other, otherPressed, waitVars, hwVars>>

\* a button goes up
Release ==
    \E cell \in pressed :
        /\ pressed' = pressed \ {cell}
        /\ lastCall' = Call("env", FALSE, NUL, NUL, 0)
        /\ UNCHANGED <<keypad, lastKey, buffer, other, otherPressed, waitVars, hwVars>>

-----------------------------------------------------------------------------
(* The calls of the non-blocking interface, made from the idle main loop *)

\* one scan pass over the current buttons: its effect on lastKey and buffer
ScanPass(h, op) ==
    LET o == Obj(h)
        key == ScanKey(o.keypad, o.pressed)
        u == ScanUpdate(o.lastKey, o.buffer, key)
    IN  /\ Store(h, u.lastKey, u.buffer)
        /\ lastCall' = CallOn(h, op, TRUE, key, NUL, 0)

MatrixKeypad_scan ==
    \E h \in Handles :
        /\ pc = "idle"
        /\ IF IsNull(h) THEN NullCall(h, "scan(NULL)") ELSE ScanPass(h, "scan")
        /\ UNCHANGED <<keypad, pressed, otherPressed, waitVars, hwVars>>

MatrixKeypad_hasKey ==
    \E h \in Handles :
        /\ pc = "idle"
        /\ IF IsNull(h)
           THEN lastCall' = CallOn(h, "hasKey(NULL)", FALSE, NUL, NUL, 0)
           ELSE lastCall' = CallOn(h, "hasKey", FALSE, NUL, NUL, hasKey(Obj(h).buffer))
        /\ UNCHANGED <<keypad, lastKey, buffer, other, pressed, otherPressed, waitVars, hwVars>>

MatrixKeypad_getKey ==
    \E h \in Handles :
        /\ pc = "idle"
        /\ IF IsNull(h)
           THEN NullCall(h, "getKey(NULL)")
           ELSE /\ Store(h, Obj(h).lastKey, GetKey(Obj(h).buffer).buffer)
                /\ lastCall' = CallOn(h, "getKey", FALSE, NUL, GetKey(Obj(h).buffer).ret, 0)
        /\ UNCHANGED <<keypad, pressed, otherPressed, waitVars, hwVars>>

MatrixKeypad_flush ==
    \E h \in Handles :
        /\ pc = "idle"
        /\ IF IsNull(h)
           THEN NullCall(h, "flush(NULL)")
           ELSE /\ Store(h, Flush(Obj(h).lastKey, Obj(h).buffer).lastKey,
                         Flush(Obj(h).lastKey, Obj(h).buffer).buffer)
                /\ lastCall' = CallOn(h, "flush", FALSE, NUL, NUL, 0)
        /\ UNCHANGED <<keypad, pressed, otherPressed, waitVars, hwVars>>

-----------------------------------------------------------------------------
(* MatrixKeypad_waitForKey: while(!hasKey) scan; return getKey *)

\* the blocking waits are followed on the first instance and on NULL
WaitHandles == {NULL, KP}

\* what a blocking wait records when it is called
WaitEntry == [scanned |-> FALSE, buffer |-> buffer, lastKey |-> lastKey]

\* mutant: do { scan } while(!hasKey): the body runs before the first test
WaitForKeyFirstScan == "wfk_scan"

\* line 145 is a while loop: the condition is tested before the body
WaitForKeyFirst == "wfk_test"

WaitForKey_call ==
    \E h \in WaitHandles :
        /\ pc = "idle"
        /\ IF IsNull(h)
           THEN /\ NullCall(h, "waitForKey(NULL)")
                /\ UNCHANGED <<pc, wait>>
           ELSE /\ pc' = WaitForKeyFirst
                /\ wait' = WaitEntry
                /\ lastCall' = CallOn(h, "waitForKey", FALSE, NUL, NUL, 0)
                /\ UNCHANGED <<lastKey, buffer, other>>
        /\ UNCHANGED <<keypad, pressed, otherPressed, timeout, startTime, startMillis, now, hwVars>>

\* the loop condition of line 145
WaitForKey_test ==
    /\ pc = "wfk_test"
    /\ pc' = IF hasKey(buffer) = 0 THEN "wfk_scan" ELSE "wfk_get"
    /\ lastCall' = Call("waitForKey", FALSE, NUL, NUL, hasKey(buffer))
    /\ UNCHANGED <<keypad, lastKey, buffer, other, pressed, otherPressed,
                   timeout, startTime, startMillis, now, wait, hwVars>>

\* the loop body of line 146
WaitForKey_scan ==
    /\ pc = "wfk_scan"
    /\ ScanPass(KP, "waitForKey")
    /\ pc' = "wfk_test"
    /\ wait' = [wait EXCEPT !.scanned = TRUE]
    /\ UNCHANGED <<keypad, pressed, otherPressed, timeout, startTime, startMillis, now, hwVars>>

\* lines 148-150
WaitForKey_return ==
    /\ pc = "wfk_get"
    /\ Store(KP, lastKey, GetKey(buffer).buffer)
    /\ lastCall' = Call("waitForKey", FALSE, NUL, GetKey(buffer).ret, 0)
    /\ pc' = "idle"
    /\ wait' = NoWait
    /\ UNCHANGED <<keypad, pressed, otherPressed, timeout, startTime, startMillis, now, hwVars>>

-----------------------------------------------------------------------------
(* MatrixKeypad_waitForKeyTimeout *)

\* the timeouts tried: none, one millisecond, the largest uint16_t
Timeouts == {0, 1, U16 - 1}

\* the values of millis() at the call: zero, just below 2^16, 2^16, just below 2^32
StartClocks ==
    {Zero32, [hi |-> 0, lo |-> U16 - 1], [hi |-> 1, lo |-> 0], [hi |-> U16 - 1, lo |-> U16 - 1]}

\* a large clock jump between two readings of millis()
BigTick == U16 \div 2

\* the time that may pass between two readings of millis(): nothing, 1 ms, a jump
Elapses == {0, 1, BigTick}

\* mutant: the loop has no timeout test, as in MatrixKeypad_waitForKey
WithinTimeoutAlways(m, st, t) == TRUE

\* (millis() - startTime) <= timeout, line 163: startTime and timeout are
\* converted to unsigned long and the difference is taken modulo 2^32
WithinTimeout(m, st, t) == Leq32(Sub32(m, ZeroExt(st)), ZeroExt(t))

\* line 163 is a while loop: the condition is tested before the body
WaitForKeyTimeoutFirst == "wft_test"

\* line 156: startTime = millis(), then the NULL test of line 158
WaitForKeyTimeout_call ==
    \E h \in WaitHandles, t \in Timeouts, m \in StartClocks :
        /\ pc = "idle"
        /\ IF IsNull(h)
           THEN /\ NullCall(h, "waitForKeyTimeout(NULL)")
                /\ UNCHANGED <<pc, wait, timeout, startTime, startMillis, now>>
           ELSE /\ timeout' = t
                /\ startMillis' = m
                /\ startTime' = Trunc16(m)
                /\ now' = m
                /\ pc' = WaitForKeyTimeoutFirst
                /\ wait' = WaitEntry
                /\ lastCall' = CallOn(h, "waitForKeyTimeout", FALSE, NUL, NUL, 0)
                /\ UNCHANGED <<lastKey, buffer, other>>
        /\ UNCHANGED <<keypad, pressed, otherPressed, hwVars>>

\* the loop condition of line 163, d ms after the previous reading of millis();
\* millis() is read only when the buffer is empty.  The clock is followed
\* for MaxWraps * 2^16 ms after the call, longer than any timeout.
WaitForKeyTimeout_check(d) ==
    /\ pc = "wft_test"
    /\ d = 1 => (Sub32(now, startMillis).lo % BigTick) < MaxFine
    /\ d # 0 => Sub32(now, startMillis).hi < MaxWraps
    /\ lastCall' = Call("waitForKeyTimeout", FALSE, NUL, NUL, hasKey(buffer))
    /\ IF hasKey(buffer) = 0
       THEN /\ now' = Add32(now, d)
            /\ pc' = IF WithinTimeout(now', startTime, timeout) THEN "wft_scan" ELSE "wft_get"
       ELSE /\ now' = now
            /\ pc' = "wft_get"
    /\ UNCHANGED <<keypad, lastKey, buffer, other, pressed, otherPressed,
                   timeout, startTime, startMillis, wait, hwVars>>

WaitForKeyTimeout_test == \E d \in Elapses : WaitForKeyTimeout_check(d)

\* the loop body of line 164
WaitForKeyTimeout_scan ==
    /\ pc = "wft_scan"
    /\ ScanPass(KP, "waitForKeyTimeout")
    /\ pc' = "wft_test"
    /\ wait' = [wait EXCEPT !.scanned = TRUE]
    /\ UNCHANGED <<keypad, pressed, otherPressed, timeout, startTime, startMillis, now, hwVars>>

\* lines 166-168; the locals end with the call
WaitForKeyTimeout_return ==
    /\ pc = "wft_get"
    /\ Store(KP, lastKey, GetKey(buffer).buffer)
    /\ lastCall' = Call("waitForKeyTimeout", FALSE, NUL, GetKey(buffer).ret, 0)
    /\ pc' = "idle"
    /\ timeout' = 0
    /\ startTime' = 0
    /\ startMillis' = Zero32
    /\ now' = Zero32
    /\ wait' = NoWait
    /\ UNCHANGED <<keypad, pressed, otherPressed, hwVars>>

-----------------------------------------------------------------------------
(* Specifications *)

Next ==
    \/ Press
    \/ Release
    \/ MatrixKeypad_scan
    \/ MatrixKeypad_hasKey
    \/ MatrixKeypad_getKey
    \/ MatrixKeypad_flush
    \/ WaitForKey_call
    \/ WaitForKey_test
    \/ WaitForKey_scan
    \/ WaitForKey_return
    \/ WaitForKeyTimeout_call
    \/ WaitForKeyTimeout_test
    \/ WaitForKeyTimeout_scan
    \/ WaitForKeyTimeout_return

\* the 2x3 keypad, buttons going down and up at any time, every call
Spec == Init /\ [][Next]_vars

NextExample ==
    \/ MatrixKeypad_scan
    \/ MatrixKeypad_hasKey
    \/ MatrixKeypad_getKey
    \/ MatrixKeypad_flush

\* the 4x3 keypad of the documentation with any set of buttons held throughout
SpecExample == InitExample /\ [][NextExample]_vars

\* one statement of a running blocking wait
WaitStep ==
    \/ WaitForKey_test
    \/ WaitForKey_scan
    \/ WaitForKey_return
    \/ WaitForKeyTimeout_test
    \/ WaitForKeyTimeout_scan
    \/ WaitForKeyTimeout_return

\* a reading of millis() in line 163 that is later than the previous one
ClockAdvances == \E d \in Elapses \ {0} : WaitForKeyTimeout_check(d)

\* the processor keeps executing a busy loop it has entered, and the
\* millisecond clock keeps advancing between the readings of the loop
Fairness == WF_vars(WaitStep) /\ SF_vars(ClockAdvances)

\* the 1x2 keypad with every call, a processor that keeps running and a
\* clock that keeps advancing
SpecFair == InitTiny /\ [][Next]_vars /\ Fairness

-----------------------------------------------------------------------------
(* MatrixKeypad_scan, one pin access at a time *)

\* the row pins that are driven LOW
LowPins == {p \in DOMAIN rowLevel : rowLevel[p] = LOW}

digitalWrite(levels, pin, val) == [levels EXCEPT ![pin] = val]

\* mutant: the row is left LOW after its columns were read
RestoreRowSkipped(levels, pin) == levels

\* digitalWrite(keypad->rowPins[row], HIGH), line 93
RestoreRow(levels, pin) == digitalWrite(levels, pin, HIGH)

\* the inner loop, lines 88-92, with the row pins in `low` driven LOW
RECURSIVE ReadCols(_, _, _, _, _, _)
ReadCols(kp, pr, low, row, col, key) ==
    IF col < kp.coln
    THEN ReadCols(kp, pr, low, row, col + 1,
                  IF ReadsPressed(digitalRead(kp, pr, low, kp.colPins[col + 1]))
                  THEN KeyAt(kp, row, col)
                  ELSE key)
    ELSE key

\* lines 69-73: the locals, then the NULL test
Scan_call ==
    \E h \in {NULL, KP} :
        /\ pc = "idle"
        /\ IF IsNull(h)
           THEN /\ NullCall(h, "scan(NULL)")
                /\ UNCHANGED <<pc, scan>>
           ELSE /\ pc' = "scan_row"
                /\ scan' = [row |-> 0, key |-> NUL]
                /\ lastCall' = CallOn(h, "scan_call", FALSE, NUL, NUL, 0)
                /\ UNCHANGED <<lastKey, buffer, other>>
        /\ UNCHANGED <<keypad, pressed, otherPressed, timeout, startTime, startMillis, now,
                       wait, rowLevel>>

\* line 85 with row < rown, and line 87
Scan_low ==
    /\ pc = "scan_row"
    /\ scan.row < keypad.rown
    /\ rowLevel' = digitalWrite(rowLevel, keypad.rowPins[scan.row + 1], LOW)
    /\ pc' = "scan_cols"
    /\ lastCall' = Call("scan_low", FALSE, NUL, NUL, 0)
    /\ UNCHANGED <<keypad, lastKey, buffer, other, pressed, otherPressed,
                   timeout, startTime, startMillis, now, wait, scan>>

\* lines 88-92
Scan_cols ==
    /\ pc = "scan_cols"
    /\ scan' = [scan EXCEPT !.key = ReadCols(keypad, pressed, LowPins, scan.row, 0, scan.key)]
    /\ pc' = "scan_high"
    /\ lastCall' = Call("scan_cols", FALSE, NUL, NUL, 0)
    /\ UNCHANGED <<keypad, lastKey, buffer, other, pressed, otherPressed,
                   timeout, startTime, startMillis, now, wait, rowLevel>>

\* line 93 and row++
Scan_high ==
    /\ pc = "scan_high"
    /\ rowLevel' = RestoreRow(rowLevel, keypad.rowPins[scan.row + 1])
    /\ scan' = [scan EXCEPT !.row = scan.row + 1]
    /\ pc' = "scan_row"
    /\ lastCall' = Call("scan_high", FALSE, NUL, NUL, 0)
    /\ UNCHANGED <<keypad, lastKey, buffer, other, pressed, otherPressed,
                   timeout, startTime, startMillis, now, wait>>

\* line 85 with row = rown, then lines 96-101
Scan_update ==
    /\ pc = "scan_row"
    /\ scan.row >= keypad.rown
    /\ Store(KP, ScanUpdate(lastKey, buffer, scan.key).lastKey,
             ScanUpdate(lastKey, buffer, scan.key).buffer)
    /\ lastCall' = Call("scan", TRUE, scan.key, NUL, 0)
    /\ pc' = "idle"
    /\ scan' = NoScan
    /\ UNCHANGED <<keypad, pressed, otherPressed, timeout, startTime, startMillis, now,
                   wait, rowLevel>>

NextRows ==
    \/ Scan_call
    \/ Scan_low
    \/ Scan_cols
    \/ Scan_high
    \/ Scan_update
    \/ MatrixKeypad_hasKey
    \/ MatrixKeypad_getKey
    \/ MatrixKeypad_flush

\* the 4x3 keypad of the documentation with any set of buttons held
\* throughout, each scan pass followed pin by pin
SpecRows == InitExample /\ [][NextRows]_vars

-----------------------------------------------------------------------------
(* A second instance *)

\* a second MatrixKeypad_create: a new object, its row pins driven HIGH
CreateOther ==
    /\ pc = "idle"
    /\ other = NoOther
    /\ other' = Created(OtherKeypad)
    /\ rowLevel' = rowLevel @@ RowsIdle(OtherKeypad)
    /\ lastCall' = [op |-> "create", handle |-> KP2, scanned |-> FALSE, key |-> NUL,
                    ret |-> NUL, has |-> 0, old |-> NUL, oldLast |-> NUL]
    /\ UNCHANGED <<keypad, lastKey, buffer, pressed, otherPressed, waitVars, scan>>

\* a button of the second keypad goes down
OtherPress ==
    /\ other # NoOther
    /\ \E cell \in Cells(other.keypad) \ otherPressed :
        /\ Cardinality(otherPressed) < MaxPressed
        /\ otherPressed' = otherPressed \cup {cell}
        /\ lastCall' = CallOn(KP2, "env", FALSE, NUL, NUL, 0)
        /\ UNCHANGED <<keypad, lastKey, buffer, other, pressed, waitVars, hwVars>>

\* a button of the second keypad goes up
OtherRelease ==
    \E cell \in otherPressed :
        /\ otherPressed' = otherPressed \ {cell}
        /\ lastCall' = CallOn(KP2, "env", FALSE, NUL, NUL, 0)
        /\ UNCHANGED <<keypad, lastKey, buffer, other, pressed, waitVars, hwVars>>

NextTwo ==
    \/ CreateOther
    \/ Press
    \/ Release
    \/ OtherPress
    \/ OtherRelease
    \/ MatrixKeypad_scan
    \/ MatrixKeypad_hasKey
    \/ MatrixKeypad_getKey
    \/ MatrixKeypad_flush
    \/ WaitForKey_call
    \/ WaitForKey_test
    \/ WaitForKey_scan
    \/ WaitForKey_return

\* the 1x2 keypad and, once created, the 2x1 keypad, with the calls on
\* either of them and the buttons of both going down and up at any time
SpecTwo == InitTiny /\ [][NextTwo]_vars

-----------------------------------------------------------------------------
(* Properties.  lastCall.old and lastCall.oldLast are the buffer and the   *)
(* lastKey before the step that lastCall describes.                        *)

\* a getKey made directly or at the end of a blocking wait
Reads == {"getKey", "waitForKey", "waitForKeyTimeout"}

\* the step was a scan pass that saw a press edge
PressEdge == lastCall.scanned /\ lastCall.key # NUL /\ lastCall.key # lastCall.oldLast

\* C1. Idempotent hold: a scan pass whose candidate equals the key detected
\* by the previous pass (the same cell still active, or still nothing) writes
\* neither the buffer nor lastKey; so once the event of a held key has been
\* read, further scans do not make hasKey true again.
C1_IdempotentHold ==
    (lastCall.scanned /\ lastCall.key = lastCall.oldLast)
        => /\ buffer = lastCall.old
           /\ lastKey = lastCall.oldLast
           /\ hasKey(buffer) = hasKey(lastCall.old)

\* K is held, its event was read before, and a scan pass has just seen K again
C1_Witness ==
    /\ lastCall.scanned
    /\ lastCall.key # NUL
    /\ lastCall.key = lastCall.oldLast
    /\ lastCall.old = NUL
    /\ buffer = NUL

\* C2. Single read: getKey returns the buffered key and leaves the buffer
\* empty (hasKey is 0 after any getKey); a getKey that directly follows a
\* getKey returns '\0'.
C2_SingleRead ==
    /\ [](lastCall.op = "getKey"
            => lastCall.ret = lastCall.old /\ buffer = NUL /\ hasKey(buffer) = 0)
    /\ [][(lastCall.op = "getKey" /\ lastCall'.op = "getKey") => lastCall'.ret = NUL]_vars

\* a getKey has just returned a pressed key
C2_Witness ==
    /\ lastCall.op = "getKey"
    /\ lastCall.ret # NUL
    /\ lastCall.ret = lastKey
    /\ buffer = NUL

\* C3. Release preserves the buffer: a scan pass never takes the buffer from
\* a key to '\0', and a pass that sees no key leaves the buffer as it was;
\* the buffer becomes empty only in getKey, flush, or the getKey that ends a
\* blocking wait.
C3_ReleasePreservesBuffer ==
    /\ (lastCall.scanned /\ lastCall.old # NUL) => buffer # NUL
    /\ (lastCall.scanned /\ lastCall.key = NUL) => buffer = lastCall.old
    /\ (lastCall.old # NUL /\ buffer = NUL)
          => ~lastCall.scanned /\ lastCall.op \in Reads \cup {"flush"}

\* a scan pass has just seen the release of K while K is still unread
C3_Witness ==
    /\ lastCall.scanned
    /\ lastCall.key = NUL
    /\ lastCall.oldLast # NUL
    /\ pressed = {}
    /\ buffer = lastCall.oldLast

\* C4. Flush clears the buffer and keeps lastKey; a scan pass right after a
\* flush that sees the same key held does not buffer it; a pass that sees
\* the release sets lastKey to '\0', and a pass that then sees a key buffers it.
C4_FlushKeepsHistory ==
    /\ [](lastCall.op = "flush"
            => buffer = NUL /\ hasKey(buffer) = 0 /\ lastKey = lastCall.oldLast)
    /\ [][(lastCall.op = "flush" /\ lastCall'.scanned /\ lastCall'.key = lastKey)
            => buffer' = NUL /\ lastKey' = lastKey]_vars
    /\ []((lastCall.scanned /\ lastCall.key = NUL) => lastKey = NUL)
    /\ []((lastCall.scanned /\ lastCall.oldLast = NUL /\ lastCall.key # NUL)
            => buffer = lastCall.key)

\* a flush has just discarded the unread event of a key that is still held
C4_Witness ==
    /\ lastCall.op = "flush"
    /\ lastCall.old # NUL
    /\ lastKey = lastCall.old
    /\ buffer = NUL

\* C5. Timeout correctness with wraparound: when the loop of
\* waitForKeyTimeout is left with an empty buffer (no press occurred), the
\* time elapsed since the call, millis() minus the value of millis() at the
\* call modulo 2^32, exceeds the timeout.
C5_TimeoutElapsed ==
    (pc = "wft_get" /\ buffer = NUL)
        => ~Leq32(Sub32(now, startMillis), ZeroExt(timeout))

\* the key-map entry of the last active cell in row-major order
LastActiveKey(kp, pr) ==
    IF pr = {} THEN NUL
    ELSE LET r == CHOOSE x \in {cell[1] : cell \in pr} : \A cell \in pr : cell[1] <= x
             c == CHOOSE y \in {cell[2] : cell \in {z \in pr : z[1] = r}} :
                      \A cell \in pr : cell[1] = r => cell[2] <= y
         IN  kp.keyMap[r * kp.coln + c + 1]

\* C6. Tie-break: the candidate key of a scan pass is the key-map entry of
\* the highest-indexed active row and, in that row, of the highest-indexed
\* active column ('\0' when no cell is active).
C6_TieBreak ==
    lastCall.scanned => lastCall.key = LastActiveKey(keypad, pressed)

\* a scan pass over three active cells in two rows took the last one, (3, 1)
C6_Witness ==
    /\ lastCall.scanned
    /\ pressed = {<<0, 2>>, <<3, 0>>, <<3, 1>>}
    /\ lastCall.key = "0"
    /\ buffer = "0"

\* the first scan pass of a new keypad
FirstScan == lastCall.op = "scan" /\ lastCall.oldLast = NUL /\ lastCall.old = NUL

\* C7, as stated. Example: with only the button at row 2, column 1 held on
\* the new 4x3 keypad, the first scan buffers '6' and getKey returns '6'.
C7_ExampleYields6 ==
    pressed = {<<2, 1>>}
        => /\ FirstScan => (buffer = "6" /\ hasKey(buffer) = 1)
           /\ (lastCall.op = "getKey" /\ lastCall.old # NUL) => lastCall.ret = "6"

\* C7, amended. Example: with only the button at row 2, column 1 held on the
\* new 4x3 keypad, the first scan buffers '8' (keyMap[2][1]) and hasKey is 1;
\* getKey returns '8' and empties the buffer, and from then on the buffer
\* stays empty, so every later getKey returns '\0'.
C7_ExampleYields8 ==
    /\ [](pressed = {<<2, 1>>}
            => /\ FirstScan => (buffer = "8" /\ lastKey = "8" /\ hasKey(buffer) = 1)
               /\ lastCall.op = "getKey"
                    => (lastCall.ret = lastCall.old /\ lastCall.ret \in {"8", NUL}
                        /\ buffer = NUL))
    /\ [][(pressed = {<<2, 1>>} /\ lastKey = "8" /\ buffer = NUL) => buffer' = NUL]_vars

\* the button at row 2, column 1 is held and getKey has just returned '8'
C7_Witness ==
    /\ pressed = {<<2, 1>>}
    /\ lastCall.op = "getKey"
    /\ lastCall.ret = "8"
    /\ buffer = NUL

\* C8. No phantom presses: a scan pass during which no cell is active has
\* the candidate '\0', leaves the buffer as it was and lastKey at '\0'; with
\* the buffer empty before, hasKey is 0 after.
C8_NoPhantomPress ==
    (lastCall.scanned /\ pressed = {})
        => /\ lastCall.key = NUL
           /\ lastKey = NUL
           /\ buffer = lastCall.old
           /\ lastCall.old = NUL => hasKey(buffer) = 0

\* an all-idle scan pass of a keypad with nothing detected and nothing buffered
C8_Witness ==
    /\ lastCall.scanned
    /\ pressed = {}
    /\ lastCall.oldLast = NUL
    /\ lastCall.old = NUL
    /\ buffer = NUL
    /\ lastKey = NUL

\* C9. Only the last pressed key is kept: a scan pass that sees a press edge
\* sets the buffer to that key, also over an unread event; a pass without a
\* press edge leaves the buffer; and a read returns what the buffer holds.
C9_LastPressKept ==
    /\ PressEdge => buffer = lastCall.key
    /\ (lastCall.scanned /\ ~PressEdge) => buffer = lastCall.old
    /\ lastCall.op \in Reads /\ pc = "idle" => lastCall.ret = lastCall.old

\* a press edge of B has just overwritten the unread event A
C9_Witness ==
    /\ lastCall.scanned
    /\ lastCall.old # NUL
    /\ lastCall.key # NUL
    /\ lastCall.old # lastCall.key
    /\ buffer = lastCall.key

\* C10, as stated. Exactly-once delivery: under scan and getKey an unread
\* press leaves the buffer only by being returned by getKey, and a returned
\* press is no longer in the buffer.
C10_ExactlyOnce ==
    /\ (lastCall.op \in {"scan", "getKey"} /\ lastCall.old # NUL /\ buffer # lastCall.old)
          => lastCall.ret = lastCall.old
    /\ lastCall.ret # NUL => (lastCall.ret = lastCall.old /\ buffer = NUL)

\* C10, amended. At-most-once delivery: an unread press leaves the buffer
\* either by being returned by getKey or by being overwritten by the press
\* edge of a later scan pass; a returned press is no longer in the buffer;
\* and a key enters the buffer only by a press edge.
C10_AtMostOnce ==
    /\ (lastCall.op \in {"scan", "getKey"} /\ lastCall.old # NUL /\ buffer # lastCall.old)
          => \/ lastCall.ret = lastCall.old /\ buffer = NUL
             \/ PressEdge /\ buffer = lastCall.key
    /\ lastCall.ret # NUL => (lastCall.ret = lastCall.old /\ buffer = NUL)
    /\ (buffer # NUL /\ buffer # lastCall.old) => (PressEdge /\ buffer = lastCall.key)

\* a press is returned by getKey after its button was released
C10_Witness ==
    /\ lastCall.op = "getKey"
    /\ lastCall.ret # NUL
    /\ lastKey = NUL
    /\ pressed = {}
    /\ buffer = NUL


\* the positions inside a blocking wait
WaitPcs == {"wfk_test", "wfk_scan", "wfk_get", "wft_test", "wft_scan", "wft_get"}

\* C11. Unread event first: when waitForKey or waitForKeyTimeout is called
\* with an unread event A in the buffer, the call makes no scan pass
\* (whatever is pressed), keeps buffer and lastKey until it returns, and
\* returns A, leaving the buffer empty and lastKey as it was at the call.
C11_UnreadFirst ==
    /\ []((pc \in WaitPcs /\ wait.buffer # NUL)
            => /\ ~wait.scanned
               /\ pc \notin {"wfk_scan", "wft_scan"}
               /\ buffer = wait.buffer
               /\ lastKey = wait.lastKey)
    /\ [][(pc \in {"wfk_get", "wft_get"} /\ pc' = "idle" /\ wait.buffer # NUL)
            => /\ lastCall'.ret = wait.buffer
               /\ ~lastCall'.scanned
               /\ buffer' = NUL
               /\ lastKey' = wait.lastKey]_vars

\* waitForKeyTimeout has returned the unread '1' of a released button while
\* the button of '4' is down: no pass of the wait saw '4'
C11_Witness ==
    /\ pc = "idle"
    /\ lastCall.op = "waitForKeyTimeout"
    /\ lastCall.ret = "1"
    /\ lastKey = NUL
    /\ buffer = NUL
    /\ pressed = {<<1, 0>>}

\* C12. waitForKey on a valid instance returns exactly when a press is
\* available: it never returns '\0'; while the buffer is empty the loop goes
\* on, and a pass that sees no key different from lastKey (nothing, or the
\* key already read and still held) leaves it empty; the loop is left only
\* with a buffered key, which, when the buffer was empty at the call, is the
\* press edge a pass of this wait saw; and once a pass of the wait has seen
\* a press edge, the call returns that key.
C12_ReturnsIffPress ==
    /\ []((pc = "idle" /\ lastCall.op = "waitForKey") => lastCall.ret # NUL)
    /\ [][(pc = "wfk_test" /\ buffer = NUL) => pc' \in {"wfk_test", "wfk_scan"}]_vars
    /\ []((pc = "wfk_test" /\ lastCall.scanned /\ ~PressEdge) => buffer = NUL)
    /\ []((pc = "wfk_get" /\ wait.buffer = NUL)
            => wait.scanned /\ buffer # NUL /\ buffer = lastKey)
    /\ \A k \in Keys(TinyKeypad) :
          (pc = "wfk_test" /\ PressEdge /\ lastCall.key = k)
              ~> (pc = "idle" /\ lastCall.op = "waitForKey" /\ lastCall.ret = k)

\* a wait called after '1' was read goes on scanning while '1' is kept held
C12_Witness ==
    /\ pc = "wfk_test"
    /\ wait.scanned
    /\ lastCall.scanned
    /\ lastCall.key = "1"
    /\ lastKey = "1"
    /\ wait.lastKey = "1"
    /\ buffer = NUL

\* C13. waitForKeyTimeout terminates: for each timeout tried (0, 1 and the
\* largest, 65535) and each value of millis() at the call, a running call
\* returns, pressed key or not, when the processor keeps running and the
\* clock keeps advancing; the time passed since the call stays below 2^16 ms
\* whenever the loop condition is evaluated again.
C13_Terminates ==
    /\ [](pc = "wft_test" => Sub32(now, startMillis).hi = 0)
    /\ \A t \in Timeouts, m \in StartClocks :
          (pc \in {"wft_test", "wft_scan"} /\ timeout = t /\ startMillis = m)
              ~> (pc = "idle" /\ lastCall.op = "waitForKeyTimeout")

\* a call with the largest timeout has left its loop after 2^16 ms without a key
C13_Witness ==
    /\ pc = "wft_get"
    /\ timeout = U16 - 1
    /\ wait.scanned
    /\ buffer = NUL
    /\ Sub32(now, startMillis) = [hi |-> 1, lo |-> 0]

\* C14. waitForKeyTimeout returns '\0' only on timeout expiry without a
\* press: when its loop is left with an empty buffer the time passed since
\* the call exceeds the timeout; a press edge buffered by a pass of the wait
\* is still in the buffer when the loop is left, whatever the clock says;
\* the call returns the buffer as it was at loop exit ('\0' exactly when
\* it was empty) and leaves the buffer empty.
C14_SentinelOnlyOnExpiry ==
    /\ (pc = "wft_get" /\ buffer = NUL)
          => ~Leq32(Sub32(now, startMillis), ZeroExt(timeout))
    /\ (pc \in {"wft_test", "wft_get"} /\ lastCall.scanned /\ PressEdge)
          => buffer = lastCall.key
    /\ (pc = "idle" /\ lastCall.op = "waitForKeyTimeout")
          => /\ lastCall.ret = lastCall.old
             /\ (lastCall.ret = NUL <=> lastCall.old = NUL)
             /\ buffer = NUL

\* the calls made with a NULL keypad
NullOps ==
    {"scan(NULL)", "hasKey(NULL)", "getKey(NULL)", "flush(NULL)",
     "waitForKey(NULL)", "waitForKeyTimeout(NULL)"}

\* C15. NULL keypad: every operation called with NULL returns at once:
\* no scan pass is made (no pin is read or written), hasKey returns 0,
\* getKey and both waits return '\0', no wait loop is entered, and no field
\* of an existing instance, no row level and no wait in progress changes.
C15_NullNoOp ==
    /\ [](lastCall.handle = NULL
            => /\ lastCall.op \in NullOps
               /\ ~lastCall.scanned
               /\ lastCall.ret = NUL
               /\ lastCall.has = 0
               /\ pc = "idle"
               /\ wait = NoWait)
    /\ [][lastCall'.handle = NULL
            => UNCHANGED <<keypad, lastKey, buffer, other, rowLevel, scan, waitVars>>]_vars
    /\ [](lastCall.op \in NullOps => lastCall.handle = NULL)

\* scan(NULL) has returned while the button of '1' is down and unseen: a
\* pass over the instance would have set lastKey and the buffer
C15_Witness ==
    /\ lastCall.op = "scan(NULL)"
    /\ lastCall.handle = NULL
    /\ pressed = {<<0, 0>>}
    /\ lastKey = NUL
    /\ buffer = NUL

\* C16. Scan update rule: after every scan pass with candidate k, lastKey
\* is k; the buffer is k when k is not '\0' and differs from the lastKey
\* before the pass (also when that lastKey was another key, with no release
\* seen in between), and is as before the pass in every other case.
C16_ScanUpdateRule ==
    lastCall.scanned
        => /\ lastKey = lastCall.key
           /\ IF lastCall.key # lastCall.oldLast /\ lastCall.key # NUL
              THEN buffer = lastCall.key
              ELSE buffer = lastCall.old

\* '1' was held and read; with '2' down as well a pass went from '1' to '2'
\* and buffered '2'
C16_Witness ==
    /\ lastCall.scanned
    /\ lastCall.oldLast = "1"
    /\ lastCall.old = NUL
    /\ lastCall.key = "2"
    /\ pressed = {<<0, 0>>, <<0, 1>>}
    /\ buffer = "2"
    /\ lastKey = "2"

\* C17. A key is saved in the buffer only if the last key was released:
\* every scan pass that writes the buffer starts with lastKey = '\0'.
C17_BufferedOnlyAfterRelease ==
    (lastCall.scanned /\ buffer # lastCall.old) => lastCall.oldLast = NUL

\* C18 as stated. Each evaluation of hasKey in waitForKey comes after a
\* scan pass made in the same call, so the loop is left after at least one pass.
C18_ScanBeforeCheck ==
    pc \in {"wfk_test", "wfk_get"} => wait.scanned

\* C18. Order inside waitForKey: the call starts with the evaluation of
\* hasKey; each scan pass directly follows an evaluation that found the
\* buffer empty; the loop is left without any pass when the buffer held an
\* unread event at the call, and after at least one pass otherwise.
C18_CheckBeforeScan ==
    /\ [][(pc = "idle" /\ lastCall'.op = "waitForKey") => pc' = "wfk_test"]_vars
    /\ [][(pc # "wfk_scan" /\ pc' = "wfk_scan")
            => pc = "wfk_test" /\ hasKey(buffer) = 0 /\ lastCall'.has = 0]_vars
    /\ [](pc = "wfk_scan" => buffer = NUL)
    /\ [](pc = "wfk_get" => (wait.scanned <=> wait.buffer = NUL))

\* waitForKey has left its loop at the first evaluation, with no pass made
C18_Witness ==
    /\ pc = "wfk_get"
    /\ ~wait.scanned
    /\ wait.buffer = "2"
    /\ buffer = "2"
    /\ lastCall.op = "waitForKey"
    /\ lastCall.has = 1

\* C19. Row lines: outside a scan pass (after create and after every
\* completed pass) every row pin is HIGH; during a pass at most one row pin
\* is LOW, the one of the current row while its columns are read; the row
\* index starts at 0 and goes up by one with every row pin HIGH, up to rown.
C19_RowDiscipline ==
    /\ [](pc = "idle" => LowPins = {} /\ scan = NoScan)
    /\ [](Cardinality(LowPins) <= 1)
    /\ [](pc \in {"scan_cols", "scan_high"}
            => scan.row < keypad.rown /\ LowPins = {keypad.rowPins[scan.row + 1]})
    /\ [](pc = "scan_row" => LowPins = {} /\ scan.row <= keypad.rown)
    /\ [][(pc = "idle" /\ pc' = "scan_row") => scan'.row = 0]_vars
    /\ [][(pc # "idle" /\ pc' # "idle" /\ scan'.row # scan.row)
            => scan'.row = scan.row + 1 /\ LowPins' = {}]_vars
    /\ [][(pc # "idle" /\ pc' = "idle") => scan.row = keypad.rown]_vars

\* the third row (pin 8) is LOW, the others are back HIGH, and the pass
\* has found a key in an earlier row
C19_Witness ==
    /\ pc = "scan_cols"
    /\ scan.row = 2
    /\ scan.key = "5"
    /\ LowPins = {8}
    /\ rowLevel[10] = HIGH
    /\ rowLevel[9] = HIGH
    /\ rowLevel[7] = HIGH

\* the calls that read or clear the buffer without a scan pass
BufferOps == {"getKey", "flush"}

\* C20. Frame conditions: hasKey changes no field and no row level; getKey
\* and flush change at most the buffer of their instance; lastKey changes
\* only in a scan pass on its instance; the geometry, pin tables and key
\* map of an instance never change; a call on one instance leaves lastKey
\* and buffer of the other instance as they were.
C20_Frame ==
    /\ [][lastCall'.op = "hasKey"
            => UNCHANGED <<keypad, lastKey, buffer, other, rowLevel, pressed, otherPressed>>]_vars
    /\ [][lastCall'.op \in BufferOps
            => /\ UNCHANGED <<keypad, lastKey, rowLevel>>
               /\ other # NoOther
                    => other'.keypad = other.keypad /\ other'.lastKey = other.lastKey]_vars
    /\ [][lastKey' # lastKey => lastCall'.scanned /\ lastCall'.handle = KP]_vars
    /\ [][(other # NoOther /\ other'.lastKey # other.lastKey)
            => lastCall'.scanned /\ lastCall'.handle = KP2]_vars
    /\ [][keypad' = keypad]_vars
    /\ [][other # NoOther => other'.keypad = other.keypad]_vars
    /\ [][(lastCall'.handle = KP /\ other # NoOther)
            => other'.lastKey = other.lastKey /\ other'.buffer = other.buffer]_vars
    /\ [][lastCall'.handle = KP2 => lastKey' = lastKey /\ buffer' = buffer]_vars

\* getKey on the second instance has returned its 'B' while the first
\* instance keeps its unread '1'
C20_Witness ==
    /\ lastCall.op = "getKey"
    /\ lastCall.handle = KP2
    /\ lastCall.ret = "B"
    /\ other.lastKey = "B"
    /\ other.buffer = NUL
    /\ buffer = "1"
    /\ lastKey = "1"
====
